---- MODULE Spec2Model ----
(***************************************************************************)
(* The four ZeroMQ benchmark programs of cpp/src:                          *)
(*   local_lat  (REP echo server)      remote_lat (REQ round-trip timer)   *)
(*   local_thr  (PULL receiver)        remote_thr (PUSH sender)            *)
(* Each program is a sequential main(); one action is one step of main()   *)
(* up to and including its next blocking transport call or its return.     *)
(* The transport is the environment: every call on it either succeeds or   *)
(* raises zmq::error_t, and a receive blocks until a message is queued.    *)
(***************************************************************************)
EXTENDS Integers, Sequences, FiniteSets

\* ------------------------------------------------------------------ bounds
\* Longest message a peer puts on the wire, and largest size argument.
MaxLen == 2
\* Largest count argument (roundtrip_count / message_count).
MaxCount == 3
\* Width of size_t, scaled down from 64 bits so that 2^SizeBits is a TLC integer.
SizeBits == 12
\* Largest elapsed time, in microseconds, the clock difference can show.
MaxElapsed == 1
\* Largest message count of the runs that print progress lines.
MaxProgressCount == 102
\* Width of int, scaled down from 32 bits so that products stay TLC integers.
IntBits == 8

\* --------------------------------------------------------------- constants
ArgcExpected == 4
ExitSuccess == 0
ExitFailure == 1
FillerByte == 88
ProgressMinCount == 100
ProgressSteps == 10
ThrFirstIndex == 1
MicrosPerSecond == 1000000
BitsPerByte == 8

LS == "local_lat"
LC == "remote_lat"
TR == "local_thr"
TS == "remote_thr"
Procs == {LS, LC, TR, TS}
\* The programs that receive messages.
Receivers == {LS, LC, TR}

Bytes == {FillerByte, FillerByte + 1}
Messages == UNION {[1..n -> Bytes] : n \in 0..MaxLen}

\* size_t: unsigned, SizeMod values; the int -> size_t conversion wraps.
SizeMod == 2 ^ SizeBits
ToSizeT(n) == n % SizeMod
\* std::vector<char>::max_size(): half the size_t range.
VectorMaxSize == (SizeMod \div 2) - 1

\* std::vector<char>(n, 'X') / zmq::message_t(buf.data(), n): n filler bytes.
Filler(n) == [k \in 1..n |-> FillerByte]

\* int: signed, IntMod values.
IntMod == 2 ^ IntBits
IntMax == (IntMod \div 2) - 1
IntMin == -(IntMod \div 2)
WrapInt(n) == ((n - IntMin) % IntMod) + IntMin
\* a * b on two ints.  A product outside the int range is undefined: the
\* build either wraps it or carries the exact product in a wider register.
MulInt(a, b) ==
  IF IntMin <= a * b /\ a * b <= IntMax THEN {a * b} ELSE {WrapInt(a * b), a * b}

\* The double n / d of two doubles holding the integers n and d; d = 0 is
\* +0.0, so the quotient is then +inf, -inf or NaN.
Ratio(n, d) == [num |-> n, den |-> d]
\* x > 0 for a double x: NaN and zero are not.
Positive(x) ==
  \/ x.num > 0 /\ x.den >= 0
  \/ x.num < 0 /\ x.den < 0

\* The outcomes of a transport call made with flags none on a socket with no
\* timeout set: it returns a value ("ok") or throws zmq::error_t ("error").
\* The empty result the loops test for stands for EAGAIN, which needs the
\* dontwait flag or a timeout option; no program sets either.
Outcomes == {"ok", "error"}
\* optional::has_value() of send_result / recv_result.
HasValue(o) == o = "ok"

ArgCounts == {ArgcExpected - 1, ArgcExpected, ArgcExpected + 1}
SizeArgs == -1..MaxLen
CountArgs == -1..MaxCount
NoArgs == [argc |-> 0, size |-> 0, count |-> 0]

VARIABLES
  active,   \* the programs launched in this session
  args,     \* args[p]: argc and atoi(argv[2]), atoi(argv[3]) of p
  st,       \* st[p]: the locals of p's main()
  stdout,   \* stdout[p]: the lines p has written to std::cout
  inq,      \* inq[p]: messages delivered to p's socket, not yet received
  wire,     \* wire[p]: messages p has sent, not yet taken by the peer
  obs       \* obs[p]: what an observer of p's socket has counted

vars == <<active, args, st, stdout, inq, wire, obs>>

\* The locals of main() before its first statement.
InitLocals ==
  [pc |-> "main", message_size |-> 0, count |-> 0, i |-> 0, msg |-> <<>>,
   timer |-> "unset", elapsed |-> 0, exit_code |-> ExitSuccess]

InitObs ==
  [transport |-> FALSE, attached |-> FALSE, recvs |-> 0, sends |-> 0,
   lastRecv |-> <<>>, wrongSize |-> 0, failures |-> 0, slept |-> 0,
   atStart |-> <<>>, atStop |-> <<>>, atSleep |-> <<>>]

Exited(p) == st[p].pc = "exited"


\* ------------------------------------------------------- shared machinery
\* `return code;` from main(), also the return of either catch block.
Return(s, code) == [s EXCEPT !.pc = "exited", !.exit_code = code]

\* One step of program p: its new locals, output and socket, all else unchanged.
Step(p, s, out, q, w, o) ==
  /\ st' = [st EXCEPT ![p] = s]
  /\ stdout' = [stdout EXCEPT ![p] = out]
  /\ inq' = [inq EXCEPT ![p] = q]
  /\ wire' = [wire EXCEPT ![p] = w]
  /\ obs' = [obs EXCEPT ![p] = o]
  /\ UNCHANGED <<active, args>>

\* A transport call of p that threw: the catch block returns 1.
Thrown(p) ==
  Step(p, Return(st[p], ExitFailure), stdout[p], inq[p], wire[p],
       [obs[p] EXCEPT !.transport = TRUE, !.failures = @ + 1])

\* A blocking receive returns only when a message is queued.
CanRecv(p, o) == HasValue(o) => inq[p] # <<>>

\* What the observer notes when p takes message m off its socket.
ObsRecv(p, m) ==
  [obs[p] EXCEPT !.recvs = @ + 1, !.lastRecv = m,
                 !.wrongSize = @ + (IF Len(m) # st[p].message_size THEN 1 ELSE 0)]

ObsSend(p) == [obs[p] EXCEPT !.sends = @ + 1]

\* argc check, atoi of both numbers, positivity check; `next` is the first
\* statement of the try block.
Main(p, next) ==
  /\ p \in active
  /\ st[p].pc = "main"
  /\ LET ms == ToSizeT(args[p].size)
         cnt == args[p].count
         s == IF args[p].argc # ArgcExpected
                THEN Return(st[p], ExitFailure)
                ELSE IF ms <= 0 \/ cnt <= 0
                  THEN Return([st[p] EXCEPT !.message_size = ms, !.count = cnt],
                              ExitFailure)
                  ELSE [st[p] EXCEPT !.message_size = ms, !.count = cnt,
                                     !.pc = next]
     IN Step(p, s, stdout[p], inq[p], wire[p], obs[p])

\* context_t, socket_t and bind/connect, then the banner lines.
Attach(p, o, banner, next) ==
  /\ p \in active
  /\ st[p].pc = "attach"
  /\ IF HasValue(o)
       THEN Step(p, [st[p] EXCEPT !.pc = next], Append(stdout[p], <<banner>>),
                 inq[p], wire[p],
                 [obs[p] EXCEPT !.transport = TRUE, !.attached = TRUE])
       ELSE Thrown(p)

\* ---------------------------------------------------------------- local_lat
LocalLat_Main == Main(LS, "attach")

LocalLat_Bind(o) == Attach(LS, o, "listening", "warmup_recv")

\* socket.recv(warmup): the result is not looked at.
LocalLat_WarmupRecv(o) ==
  /\ LS \in active
  /\ st[LS].pc = "warmup_recv"
  /\ CanRecv(LS, o)
  /\ IF HasValue(o)
       THEN LET m == Head(inq[LS]) IN
            Step(LS, [st[LS] EXCEPT !.msg = m, !.pc = "warmup_send"], stdout[LS],
                 Tail(inq[LS]), wire[LS], ObsRecv(LS, m))
       ELSE Thrown(LS)

\* for (int i = 0; i < roundtrip_count; i++): the loop test.
LocalLat_LoopContinuesOffByOne(idx, cnt) == idx <= cnt
LocalLat_LoopContinues(idx, cnt) == idx < cnt

\* The locals after the loop test at index idx: the next receive, or the
\* completion line and return 0.
LocalLat_Loop(s, idx) ==
  IF LocalLat_LoopContinues(idx, s.count)
    THEN [s EXCEPT !.i = idx, !.pc = "recv"]
    ELSE Return([s EXCEPT !.i = idx], ExitSuccess)

LocalLat_LoopOut(out, s, idx) ==
  IF LocalLat_LoopContinues(idx, s.count) THEN out
  ELSE Append(out, <<"completed", s.count>>)

\* socket.send(warmup), then the loop is entered.
LocalLat_WarmupSend(o) ==
  /\ LS \in active
  /\ st[LS].pc = "warmup_send"
  /\ IF HasValue(o)
       THEN Step(LS, LocalLat_Loop(st[LS], 0), LocalLat_LoopOut(stdout[LS], st[LS], 0),
                 inq[LS], Append(wire[LS], st[LS].msg), ObsSend(LS))
       ELSE Thrown(LS)

\* if (request.size() != message_size): the size check of the echo loop.
LocalLat_SizeUnchecked(request, size) == FALSE
LocalLat_SizeMismatch(request, size) == Len(request) # size

\* socket.recv(request), the result check and the size check.
LocalLat_Recv(o) ==
  /\ LS \in active
  /\ st[LS].pc = "recv"
  /\ CanRecv(LS, o)
  /\ IF o = "error" THEN Thrown(LS)
     ELSE IF ~HasValue(o)
       THEN Step(LS, Return(st[LS], ExitFailure), stdout[LS], inq[LS], wire[LS],
                 [obs[LS] EXCEPT !.failures = @ + 1])
     ELSE LET m == Head(inq[LS]) IN
          Step(LS,
               IF LocalLat_SizeMismatch(m, st[LS].message_size)
                 THEN Return([st[LS] EXCEPT !.msg = m], ExitFailure)
                 ELSE [st[LS] EXCEPT !.msg = m, !.pc = "send"],
               stdout[LS], Tail(inq[LS]), wire[LS], ObsRecv(LS, m))

\* The message handed to socket.send in the echo loop: `request` itself.
LocalLat_EchoTruncated(request) == SubSeq(request, 1, Len(request) - 1)
LocalLat_Echo(request) == request

\* socket.send(request), the result check, i++ and the loop test.
LocalLat_Send(o) ==
  /\ LS \in active
  /\ st[LS].pc = "send"
  /\ IF o = "error" THEN Thrown(LS)
     ELSE IF ~HasValue(o)
       THEN Step(LS, Return(st[LS], ExitFailure), stdout[LS], inq[LS], wire[LS],
                 [obs[LS] EXCEPT !.failures = @ + 1])
     ELSE Step(LS, LocalLat_Loop(st[LS], st[LS].i + 1),
               LocalLat_LoopOut(stdout[LS], st[LS], st[LS].i + 1),
               inq[LS], Append(wire[LS], LocalLat_Echo(st[LS].msg)), ObsSend(LS))

\* --------------------------------------------------------------- remote_lat
RemoteLat_Main == Main(LC, "attach")

\* connect and the banner, then send_buf and recv_buf: std::vector throws
\* std::length_error above max_size(), which the second catch block returns 1 for.
RemoteLat_Connect(o) ==
  /\ LC \in active
  /\ st[LC].pc = "attach"
  /\ IF HasValue(o)
       THEN Step(LC,
                 IF st[LC].message_size > VectorMaxSize
                   THEN Return(st[LC], ExitFailure)
                   ELSE [st[LC] EXCEPT !.pc = "warmup_send"],
                 Append(stdout[LC], <<"connected">>), inq[LC], wire[LC],
                 [obs[LC] EXCEPT !.transport = TRUE, !.attached = TRUE])
       ELSE Thrown(LC)

\* socket.send(warmup_send): the result is not looked at.
RemoteLat_WarmupSend(o) ==
  /\ LC \in active
  /\ st[LC].pc = "warmup_send"
  /\ IF HasValue(o)
       THEN Step(LC, [st[LC] EXCEPT !.pc = "warmup_recv"], stdout[LC], inq[LC],
                 Append(wire[LC], Filler(st[LC].message_size)), ObsSend(LC))
       ELSE Thrown(LC)

\* socket.recv(warmup_recv): neither the result nor the size is looked at.
RemoteLat_WarmupRecv(o) ==
  /\ LC \in active
  /\ st[LC].pc = "warmup_recv"
  /\ CanRecv(LC, o)
  /\ IF HasValue(o)
       THEN LET m == Head(inq[LC]) IN
            Step(LC, [st[LC] EXCEPT !.msg = m, !.pc = "start_timer"], stdout[LC],
                 Tail(inq[LC]), wire[LC], ObsRecv(LC, m))
       ELSE Thrown(LC)

\* for (int i = 0; i < roundtrip_count; i++): the loop test.
RemoteLat_LoopContinuesOffByOne(idx, cnt) == idx <= cnt
RemoteLat_LoopContinues(idx, cnt) == idx < cnt

RemoteLat_Loop(s, idx) ==
  IF RemoteLat_LoopContinues(idx, s.count)
    THEN [s EXCEPT !.i = idx, !.pc = "send"]
    ELSE [s EXCEPT !.i = idx, !.pc = "report"]

\* auto start = now(), then the loop is entered.
RemoteLat_StartTimer ==
  /\ LC \in active
  /\ st[LC].pc = "start_timer"
  /\ Step(LC, RemoteLat_Loop([st[LC] EXCEPT !.timer = "running"], 0), stdout[LC],
          inq[LC], wire[LC],
          [obs[LC] EXCEPT !.atStart =
             <<obs[LC].sends, obs[LC].recvs, obs[LC].wrongSize>>])

\* After a request is sent the next statement is socket.recv(reply): the
\* client never has two requests out.
RemoteLat_SkipReply(s) == RemoteLat_Loop(s, s.i + 1)
RemoteLat_AwaitReply(s) == [s EXCEPT !.pc = "recv"]

\* socket.send(request) and the result check.
RemoteLat_Send(o) ==
  /\ LC \in active
  /\ st[LC].pc = "send"
  /\ IF o = "error" THEN Thrown(LC)
     ELSE IF ~HasValue(o)
       THEN Step(LC, Return(st[LC], ExitFailure), stdout[LC], inq[LC], wire[LC],
                 [obs[LC] EXCEPT !.failures = @ + 1])
     ELSE Step(LC, RemoteLat_AwaitReply(st[LC]), stdout[LC], inq[LC],
               Append(wire[LC], Filler(st[LC].message_size)), ObsSend(LC))

\* socket.recv(reply), the result check, the size check, i++ and the loop test.
RemoteLat_Recv(o) ==
  /\ LC \in active
  /\ st[LC].pc = "recv"
  /\ CanRecv(LC, o)
  /\ IF o = "error" THEN Thrown(LC)
     ELSE IF ~HasValue(o)
       THEN Step(LC, Return(st[LC], ExitFailure), stdout[LC], inq[LC], wire[LC],
                 [obs[LC] EXCEPT !.failures = @ + 1])
     ELSE LET m == Head(inq[LC]) IN
          Step(LC,
               IF Len(m) # st[LC].message_size
                 THEN Return([st[LC] EXCEPT !.msg = m], ExitFailure)
                 ELSE RemoteLat_Loop([st[LC] EXCEPT !.msg = m], st[LC].i + 1),
               stdout[LC], Tail(inq[LC]), wire[LC], ObsRecv(LC, m))

\* latency = double(elapsed) / double(roundtrip_count * 2), the product an int.
RemoteLat_Latency(e, twice) == Ratio(e, twice)
\* roundtrip_count * 1000000.0 / elapsed, all in double.
RemoteLat_Rate(e, cnt) == Ratio(cnt * MicrosPerSecond, e)

\* auto end = now(), elapsed, the result block (average latency, elapsed,
\* message rate) and return 0.
RemoteLat_Report(e) ==
  /\ LC \in active
  /\ st[LC].pc = "report"
  /\ \E twice \in MulInt(st[LC].count, 2) :
       Step(LC,
            Return([st[LC] EXCEPT !.timer = "stopped", !.elapsed = e], ExitSuccess),
            Append(stdout[LC], <<"results", e, RemoteLat_Latency(e, twice),
                                 RemoteLat_Rate(e, st[LC].count)>>),
            inq[LC], wire[LC],
            [obs[LC] EXCEPT !.atStop = <<obs[LC].sends, obs[LC].recvs>>])

\* ---------------------------------------------------------------- local_thr
\* The progress line of both throughput programs, after message idx + 1.
Progress(out, idx, cnt) ==
  IF cnt > ProgressMinCount /\ (idx + 1) % (cnt \div ProgressSteps) = 0
    THEN Append(out, <<"progress", ((idx + 1) * 100) \div cnt, idx + 1>>)
    ELSE out

LocalThr_Main == Main(TR, "attach")

LocalThr_Bind(o) == Attach(TR, o, "listening", "first_recv")

\* socket.recv(first_msg), the result check, the size check and the
\* "First message received" line.
LocalThr_FirstRecv(o) ==
  /\ TR \in active
  /\ st[TR].pc = "first_recv"
  /\ CanRecv(TR, o)
  /\ IF o = "error" THEN Thrown(TR)
     ELSE IF ~HasValue(o)
       THEN Step(TR, Return(st[TR], ExitFailure), stdout[TR], inq[TR], wire[TR],
                 [obs[TR] EXCEPT !.failures = @ + 1])
     ELSE LET m == Head(inq[TR])
              bad == Len(m) # st[TR].message_size IN
          Step(TR,
               IF bad THEN Return([st[TR] EXCEPT !.msg = m], ExitFailure)
               ELSE [st[TR] EXCEPT !.msg = m, !.pc = "start_timer"],
               IF bad THEN stdout[TR] ELSE Append(stdout[TR], <<"first">>),
               Tail(inq[TR]), wire[TR], ObsRecv(TR, m))

\* for (int i = 1; i < message_count; i++): the first index and the loop test.
LocalThr_FirstIndexZero == ThrFirstIndex - 1
LocalThr_FirstIndex == ThrFirstIndex

LocalThr_Loop(s, idx) ==
  IF idx < s.count
    THEN [s EXCEPT !.i = idx, !.pc = "recv"]
    ELSE [s EXCEPT !.i = idx, !.pc = "report"]

\* auto start = now(), then the loop is entered.
LocalThr_StartTimer ==
  /\ TR \in active
  /\ st[TR].pc = "start_timer"
  /\ Step(TR, LocalThr_Loop([st[TR] EXCEPT !.timer = "running"], LocalThr_FirstIndex),
          stdout[TR], inq[TR], wire[TR],
          [obs[TR] EXCEPT !.atStart =
             <<obs[TR].sends, obs[TR].recvs, obs[TR].wrongSize>>])

\* socket.recv(message), the result check, the size check, the progress line,
\* i++ and the loop test.
LocalThr_Recv(o) ==
  /\ TR \in active
  /\ st[TR].pc = "recv"
  /\ CanRecv(TR, o)
  /\ IF o = "error" THEN Thrown(TR)
     ELSE IF ~HasValue(o)
       THEN Step(TR, Return(st[TR], ExitFailure), stdout[TR], inq[TR], wire[TR],
                 [obs[TR] EXCEPT !.failures = @ + 1])
     ELSE LET m == Head(inq[TR])
              bad == Len(m) # st[TR].message_size IN
          Step(TR,
               IF bad THEN Return([st[TR] EXCEPT !.msg = m], ExitFailure)
               ELSE LocalThr_Loop([st[TR] EXCEPT !.msg = m], st[TR].i + 1),
               IF bad THEN stdout[TR]
               ELSE Progress(stdout[TR], st[TR].i, st[TR].count),
               Tail(inq[TR]), wire[TR], ObsRecv(TR, m))

\* elapsed_sec = double(elapsed) / 1000000.0: the denominator of throughput.
LocalThr_ElapsedSec(e) == Ratio(e, MicrosPerSecond)
\* throughput = double(message_count - 1) / elapsed_sec.
LocalThr_Throughput(cnt, sec) == Ratio((cnt - 1) * sec.den, sec.num)
\* megabits = throughput * message_size * 8 / 1000000.0.
LocalThr_Megabits(thr, size) ==
  Ratio(thr.num * size * BitsPerByte, thr.den * MicrosPerSecond)

\* auto end = now(), elapsed, the result block ("Received: message_count
\* messages" first, then the derived numbers) and return 0.
LocalThr_Report(e) ==
  /\ TR \in active
  /\ st[TR].pc = "report"
  /\ LET sec == LocalThr_ElapsedSec(e)
         thr == LocalThr_Throughput(st[TR].count, sec) IN
     Step(TR, Return([st[TR] EXCEPT !.timer = "stopped", !.elapsed = e], ExitSuccess),
          Append(stdout[TR], <<"received", st[TR].count, e, sec, thr,
                               LocalThr_Megabits(thr, st[TR].message_size)>>),
          inq[TR], wire[TR],
          [obs[TR] EXCEPT !.atStop = <<obs[TR].sends, obs[TR].recvs>>])

\* --------------------------------------------------------------- remote_thr
RemoteThr_Main == Main(TS, "attach")

RemoteThr_Connect(o) == Attach(TS, o, "connected", "sleep_connect")

\* for (int i = 0; i < message_count; i++): the loop test.
RemoteThr_LoopContinuesOffByOne(idx, cnt) == idx <= cnt
RemoteThr_LoopContinues(idx, cnt) == idx < cnt

\* The locals after the loop test at index idx: the next send, or the pause
\* that follows the "Sent" lines.
RemoteThr_Loop(s, idx) ==
  IF RemoteThr_LoopContinues(idx, s.count)
    THEN [s EXCEPT !.i = idx, !.pc = "send"]
    ELSE [s EXCEPT !.i = idx, !.pc = "sleep_flush"]

RemoteThr_LoopOut(out, s, idx) ==
  IF RemoteThr_LoopContinues(idx, s.count) THEN out
  ELSE Append(out, <<"sent", s.count>>)

\* sleep_for(100ms) after connect, then the buffer (std::vector throws above
\* max_size()), the "Sending messages" line and the loop entry.
RemoteThr_SleepConnect ==
  /\ TS \in active
  /\ st[TS].pc = "sleep_connect"
  /\ LET o == [obs[TS] EXCEPT !.slept = @ + 1,
                              !.atSleep = Append(@, obs[TS].sends)] IN
     IF st[TS].message_size > VectorMaxSize
       THEN Step(TS, Return(st[TS], ExitFailure), stdout[TS], inq[TS], wire[TS], o)
       ELSE Step(TS, RemoteThr_Loop(st[TS], 0),
                 RemoteThr_LoopOut(Append(stdout[TS], <<"sending">>), st[TS], 0),
                 inq[TS], wire[TS], o)

\* socket.send(message), the result check, the progress line, i++ and the
\* loop test.
RemoteThr_Send(o) ==
  /\ TS \in active
  /\ st[TS].pc = "send"
  /\ IF o = "error" THEN Thrown(TS)
     ELSE IF ~HasValue(o)
       THEN Step(TS, Return(st[TS], ExitFailure), stdout[TS], inq[TS], wire[TS],
                 [obs[TS] EXCEPT !.failures = @ + 1])
     ELSE Step(TS, RemoteThr_Loop(st[TS], st[TS].i + 1),
               RemoteThr_LoopOut(Progress(stdout[TS], st[TS].i, st[TS].count),
                                 st[TS], st[TS].i + 1),
               inq[TS], Append(wire[TS], Filler(st[TS].message_size)), ObsSend(TS))

\* sleep_for(100ms) after the loop, then return 0.
RemoteThr_SleepFlush ==
  /\ TS \in active
  /\ st[TS].pc = "sleep_flush"
  /\ Step(TS, Return(st[TS], ExitSuccess), stdout[TS], inq[TS], wire[TS],
          [obs[TS] EXCEPT !.slept = @ + 1,
                          !.atSleep = Append(@, obs[TS].sends)])

\* ------------------------------------------------ the peer as a test double
\* A peer that is not one of the four programs hands p any message, once p's
\* socket is attached and p has taken the previous one.
DoubleSend(p, m) ==
  /\ p \in active \cap Receivers
  /\ obs[p].attached
  /\ ~Exited(p)
  /\ inq[p] = <<>>
  /\ wire[p] = <<>>
  /\ inq' = [inq EXCEPT ![p] = <<m>>]
  /\ UNCHANGED <<active, args, st, stdout, wire, obs>>

\* The peer takes the oldest message p has sent.
DoubleRecv(p) ==
  /\ p \in active
  /\ wire[p] # <<>>
  /\ wire' = [wire EXCEPT ![p] = Tail(wire[p])]
  /\ UNCHANGED <<active, args, st, stdout, inq, obs>>

\* ------------------------------------------------------------ specification
\* One program is launched with any command line, against a test double.
Init ==
  /\ \E p \in Procs : active = {p}
  /\ \E a \in [argc : ArgCounts, size : SizeArgs, count : CountArgs] :
       args = [p \in Procs |-> IF p \in active THEN a ELSE NoArgs]
  /\ st = [p \in Procs |-> InitLocals]
  /\ stdout = [p \in Procs |-> <<>>]
  /\ inq = [p \in Procs |-> <<>>]
  /\ wire = [p \in Procs |-> <<>>]
  /\ obs = [p \in Procs |-> InitObs]

LocalLat ==
  \/ LocalLat_Main
  \/ \E o \in Outcomes : LocalLat_Bind(o)
  \/ \E o \in Outcomes : LocalLat_WarmupRecv(o)
  \/ \E o \in Outcomes : LocalLat_WarmupSend(o)
  \/ \E o \in Outcomes : LocalLat_Recv(o)
  \/ \E o \in Outcomes : LocalLat_Send(o)

RemoteLat ==
  \/ RemoteLat_Main
  \/ \E o \in Outcomes : RemoteLat_Connect(o)
  \/ \E o \in Outcomes : RemoteLat_WarmupSend(o)
  \/ \E o \in Outcomes : RemoteLat_WarmupRecv(o)
  \/ RemoteLat_StartTimer
  \/ \E o \in Outcomes : RemoteLat_Send(o)
  \/ \E o \in Outcomes : RemoteLat_Recv(o)
  \/ \E e \in 0..MaxElapsed : RemoteLat_Report(e)

LocalThr ==
  \/ LocalThr_Main
  \/ \E o \in Outcomes : LocalThr_Bind(o)
  \/ \E o \in Outcomes : LocalThr_FirstRecv(o)
  \/ LocalThr_StartTimer
  \/ \E o \in Outcomes : LocalThr_Recv(o)
  \/ \E e \in 0..MaxElapsed : LocalThr_Report(e)

RemoteThr ==
  \/ RemoteThr_Main
  \/ \E o \in Outcomes : RemoteThr_Connect(o)
  \/ RemoteThr_SleepConnect
  \/ \E o \in Outcomes : RemoteThr_Send(o)
  \/ RemoteThr_SleepFlush

Double ==
  \/ \E p \in Procs : \E m \in Messages : DoubleSend(p, m)
  \/ \E p \in Procs : DoubleRecv(p)

Next == LocalLat \/ RemoteLat \/ LocalThr \/ RemoteThr \/ Double

Spec == Init /\ [][Next]_vars

\* ------------------------------------------------------------------ claims
ValidArgs(p) ==
  /\ args[p].argc = ArgcExpected
  /\ args[p].size > 0
  /\ args[p].count > 0

ExitedWith(p, code) == p \in active /\ Exited(p) /\ st[p].exit_code = code

Printed(p, tag) == \E k \in DOMAIN stdout[p] : stdout[p][k][1] = tag

\* C1: in every receiving program, a received message whose length differs
\* from message_size ends the process with exit status 1, at every message
\* position, the warm-up included; none is accepted.
C1_WrongSizeIsFatal ==
  \A p \in Receivers :
    (ValidArgs(p) /\ obs[p].wrongSize > 0) => ExitedWith(p, ExitFailure)

\* C2: with a message_size or count argument that is zero or negative, every
\* program exits with status 1 and never touches the transport.
C2_NonPositiveArgsNoTransport ==
  \A p \in active :
    (args[p].argc = ArgcExpected /\ (args[p].size <= 0 \/ args[p].count <= 0))
      => /\ ~obs[p].transport
         /\ st[p].pc \in {"main", "exited"}
         /\ Exited(p) => st[p].exit_code = ExitFailure

\* C3: the Latency-Server receives before it sends, never sends twice without
\* a receive in between, and a run that exits 0 made exactly
\* roundtrip_count + 1 receives and roundtrip_count + 1 sends.
C3_ServerPairs ==
  /\ obs[LS].sends <= obs[LS].recvs
  /\ obs[LS].recvs <= obs[LS].sends + 1
  /\ ExitedWith(LS, ExitSuccess) =>
       /\ obs[LS].recvs = args[LS].count + 1
       /\ obs[LS].sends = args[LS].count + 1

C3_Witness ==
  /\ ExitedWith(LS, ExitSuccess)
  /\ args[LS].count = MaxCount
  /\ obs[LS].sends = MaxCount + 1
  /\ Printed(LS, "completed")

\* C4: every message the Latency-Server sends, warm-up or timed, is the very
\* byte sequence it received last, whatever the bytes are.
C4_EchoIsIdentical ==
  [][obs'[LS].sends > obs[LS].sends =>
       wire'[LS] = Append(wire[LS], obs[LS].lastRecv)]_vars

C4_Witness ==
  /\ obs[LS].sends = 2
  /\ wire[LS] = <<obs[LS].lastRecv>>
  /\ \E k \in DOMAIN obs[LS].lastRecv : obs[LS].lastRecv[k] # FillerByte

\* C5: once the Latency-Server or the Throughput-Receiver has taken a message
\* of the wrong size, it neither receives nor sends again and prints nothing
\* more.
C5_NothingAfterWrongSize ==
  [][\A p \in {LS, TR} :
       (ValidArgs(p) /\ obs[p].wrongSize > 0) =>
         /\ obs'[p].sends = obs[p].sends
         /\ obs'[p].recvs = obs[p].recvs
         /\ stdout'[p] = stdout[p]]_vars

\* C6: the Latency-Client starts its timer after the warm-up reply and before
\* any timed request, sends request k+1 only after reply k arrived with the
\* configured size, and stops the timer after exactly roundtrip_count cycles.
C6_ClientTimedLoop ==
  /\ obs[LC].recvs <= obs[LC].sends
  /\ obs[LC].sends <= obs[LC].recvs + 1
  /\ st[LC].timer = "unset" => obs[LC].sends <= 1 /\ obs[LC].atStart = <<>>
  /\ st[LC].timer # "unset" => obs[LC].atStart[1] = 1 /\ obs[LC].atStart[2] = 1
  /\ (st[LC].pc = "send" /\ st[LC].i > 0) => Len(st[LC].msg) = st[LC].message_size
  /\ st[LC].timer = "running" => obs[LC].sends <= args[LC].count + 1
  /\ st[LC].timer = "stopped" =>
       obs[LC].atStop = <<args[LC].count + 1, args[LC].count + 1>>

C6_Witness ==
  /\ st[LC].timer = "stopped"
  /\ args[LC].count = MaxCount
  /\ obs[LC].atStop = <<MaxCount + 1, MaxCount + 1>>

\* C7: the Latency-Client prints its result block only after all timed
\* exchanges; after any failed send or receive or any reply of the wrong size
\* it prints no result and exits with status 1.
C7_NoResultAfterFailure ==
  /\ Printed(LC, "results") => obs[LC].recvs = args[LC].count + 1
  /\ (ValidArgs(LC) /\ (obs[LC].failures > 0 \/ obs[LC].wrongSize > 0)) =>
       /\ ~Printed(LC, "results")
       /\ Exited(LC) => st[LC].exit_code = ExitFailure

\* C8: the Throughput-Receiver starts its timer after the first message was
\* received with the configured size, then receives message_count - 1 more
\* (none when message_count is 1), and prints "Received: message_count
\* messages" only after message_count messages of the configured size.
C8_ReceiverWindow ==
  /\ st[TR].timer = "unset" => obs[TR].recvs <= 1 /\ obs[TR].atStart = <<>>
  /\ st[TR].timer # "unset" =>
       obs[TR].atStart = <<0, 1, 0>>
  /\ st[TR].timer = "running" => obs[TR].recvs <= args[TR].count
  /\ st[TR].timer = "stopped" => obs[TR].atStop = <<0, args[TR].count>>
  /\ Printed(TR, "received") =>
       /\ obs[TR].recvs = args[TR].count
       /\ obs[TR].wrongSize = 0
       /\ stdout[TR][Len(stdout[TR])][2] = args[TR].count

C8_Witness ==
  /\ Printed(TR, "received")
  /\ args[TR].count = MaxCount
  /\ obs[TR].recvs = MaxCount

\* C9: a Throughput-Sender run that exits 0 sent exactly message_count
\* messages, each message_size filler bytes; it pauses once after connect and
\* before the first send, and once after the last send before it exits.
C9_SenderRun ==
  /\ \A k \in DOMAIN wire[TS] :
       /\ Len(wire[TS][k]) = args[TS].size
       /\ \A j \in DOMAIN wire[TS][k] : wire[TS][k][j] = FillerByte
  /\ obs[TS].slept > 0 => obs[TS].attached
  /\ obs[TS].sends > 0 => obs[TS].slept > 0
  /\ obs[TS].sends > 0 => obs[TS].atSleep[1] = 0
  /\ ExitedWith(TS, ExitSuccess) =>
       /\ obs[TS].sends = args[TS].count
       /\ obs[TS].atSleep = <<0, args[TS].count>>

C9_Witness ==
  /\ ExitedWith(TS, ExitSuccess)
  /\ args[TS].count = MaxCount
  /\ obs[TS].sends = MaxCount
  /\ obs[TS].slept = 2

\* The transport calls a full run of p makes: <<sends, receives>>.
FullRun(p) ==
  CASE p = LS -> <<args[p].count + 1, args[p].count + 1>>
    [] p = LC -> <<args[p].count + 1, args[p].count + 1>>
    [] p = TR -> <<0, args[p].count>>
    [] p = TS -> <<args[p].count, 0>>

\* C10: a program exits 0 exactly when it ran to full completion: valid
\* arguments, every send and receive succeeded, and every received message,
\* warm-up included, had the configured size; otherwise it exits 1.
C10_ExitZeroIffComplete ==
  \A p \in active :
    Exited(p) =>
      /\ st[p].exit_code \in {ExitSuccess, ExitFailure}
      /\ st[p].exit_code = ExitSuccess <=>
           /\ ValidArgs(p)
           /\ obs[p].failures = 0
           /\ obs[p].wrongSize = 0
           /\ <<obs[p].sends, obs[p].recvs>> = FullRun(p)

\* ------------------------------------------------- the two programs of a pair
\* The program at the other end of p's socket: REP <-> REQ, PULL <-> PUSH.
PeerOf(p) ==
  CASE p = LS -> LC
    [] p = LC -> LS
    [] p = TR -> TS
    [] p = TS -> TR

\* The transport hands the oldest message p has sent to its peer's socket,
\* once that socket is attached and for as long as the peer has not exited.
Deliver(p) ==
  /\ p \in active
  /\ PeerOf(p) \in active
  /\ wire[p] # <<>>
  /\ obs[PeerOf(p)].attached
  /\ ~Exited(PeerOf(p))
  /\ inq' = [inq EXCEPT ![PeerOf(p)] = Append(@, Head(wire[p]))]
  /\ wire' = [wire EXCEPT ![p] = Tail(@)]
  /\ UNCHANGED <<active, args, st, stdout, obs>>

\* What a receive returns while no message is queued: nothing, it blocks
\* (recv_flags::none, no ZMQ_RCVTIMEO).  With a timeout it would return the
\* empty result, "again".
EmptyRecvTimesOut == {"again"}
EmptyRecvOutcomes == {}

\* The programs with their transport calls drawn from S (bind, connect, send)
\* and R (receive).
LocalLatOn(S, R) ==
  \/ LocalLat_Main
  \/ \E o \in S : LocalLat_Bind(o)
  \/ \E o \in R : LocalLat_WarmupRecv(o)
  \/ \E o \in S : LocalLat_WarmupSend(o)
  \/ \E o \in R : LocalLat_Recv(o)
  \/ \E o \in S : LocalLat_Send(o)

RemoteLatOn(S, R) ==
  \/ RemoteLat_Main
  \/ \E o \in S : RemoteLat_Connect(o)
  \/ \E o \in S : RemoteLat_WarmupSend(o)
  \/ \E o \in R : RemoteLat_WarmupRecv(o)
  \/ RemoteLat_StartTimer
  \/ \E o \in S : RemoteLat_Send(o)
  \/ \E o \in R : RemoteLat_Recv(o)
  \/ \E e \in 0..MaxElapsed : RemoteLat_Report(e)

LocalThrOn(S, R) ==
  \/ LocalThr_Main
  \/ \E o \in S : LocalThr_Bind(o)
  \/ \E o \in R : LocalThr_FirstRecv(o)
  \/ LocalThr_StartTimer
  \/ \E o \in R : LocalThr_Recv(o)
  \/ \E e \in 0..MaxElapsed : LocalThr_Report(e)

RemoteThrOn(S) ==
  \/ RemoteThr_Main
  \/ \E o \in S : RemoteThr_Connect(o)
  \/ RemoteThr_SleepConnect
  \/ \E o \in S : RemoteThr_Send(o)
  \/ RemoteThr_SleepFlush

\* A pair is launched, each program with its own valid command line.
PairInit ==
  /\ active \in {{LS, LC}, {TR, TS}}
  /\ \E a \in [active -> [argc : {ArgcExpected}, size : 1..MaxLen, count : 1..MaxCount]] :
       args = [p \in Procs |-> IF p \in active THEN a[p] ELSE NoArgs]
  /\ st = [p \in Procs |-> InitLocals]
  /\ stdout = [p \in Procs |-> <<>>]
  /\ inq = [p \in Procs |-> <<>>]
  /\ wire = [p \in Procs |-> <<>>]
  /\ obs = [p \in Procs |-> InitObs]

Transport == \E p \in Procs : Deliver(p)

\* The pair over a transport on which any call may throw.
PairNext ==
  \/ LocalLatOn(Outcomes, Outcomes)
  \/ RemoteLatOn(Outcomes, Outcomes)
  \/ LocalThrOn(Outcomes, Outcomes)
  \/ RemoteThrOn(Outcomes)
  \/ Transport

SpecPair == PairInit /\ [][PairNext]_vars

\* The pair over a transport that never fails: every call succeeds, and a
\* receive returns once a message is queued.
ReliableSend == {"ok"}
ReliableRecv == ReliableSend \cup EmptyRecvOutcomes

ReliableNext ==
  \/ LocalLatOn(ReliableSend, ReliableRecv)
  \/ RemoteLatOn(ReliableSend, ReliableRecv)
  \/ LocalThrOn(ReliableSend, ReliableRecv)
  \/ RemoteThrOn(ReliableSend)
  \/ Transport

\* Both processes are scheduled and the transport delivers: a step that can
\* be taken is taken.
FairPair == PairInit /\ [][ReliableNext]_vars /\ WF_vars(ReliableNext)

\* ------------------------------------------------------- claims of the pairs
SameConfig(p) ==
  /\ {p, PeerOf(p)} = active
  /\ args[p].size = args[PeerOf(p)].size
  /\ args[p].count = args[PeerOf(p)].count

\* C11: a latency pair given the same valid message_size and roundtrip_count,
\* over a transport that delivers every message, ends with both processes
\* exited 0 and the server's "Completed roundtrip_count roundtrips" line.
C11_Done ==
  /\ ExitedWith(LS, ExitSuccess)
  /\ ExitedWith(LC, ExitSuccess)
  /\ Printed(LS, "completed")
  /\ stdout[LS][Len(stdout[LS])] = <<"completed", args[LC].count>>

C11_LatencyPairCompletes == SameConfig(LS) ~> C11_Done

C11_Witness == SameConfig(LS) /\ C11_Done /\ args[LS].count = MaxCount

\* C12: a throughput pair given the same valid message_size and message_count,
\* over a transport that delivers every message in order, ends with the
\* receiver's "Received: message_count messages" line and both processes
\* exited 0.
C12_Done ==
  /\ ExitedWith(TR, ExitSuccess)
  /\ ExitedWith(TS, ExitSuccess)
  /\ Printed(TR, "received")
  /\ stdout[TR][Len(stdout[TR])][2] = args[TS].count
  /\ obs[TR].recvs = args[TS].count

C12_ThroughputPairCompletes == SameConfig(TR) ~> C12_Done

C12_Witness == SameConfig(TR) /\ C12_Done /\ args[TR].count = MaxCount

\* --------------------------------------------- the latency client's report
\* The Latency-Client after its last reply, for every roundtrip_count an int
\* can hold: what a run that got this far has in its locals.
ReportInit ==
  /\ active = {LC}
  /\ \E c \in 1..IntMax :
       /\ args = [p \in Procs |->
                    IF p = LC THEN [argc |-> ArgcExpected, size |-> 1, count |-> c]
                    ELSE NoArgs]
       /\ st = [p \in Procs |->
                  IF p = LC
                    THEN [InitLocals EXCEPT !.pc = "report", !.message_size = 1,
                                            !.count = c, !.i = c, !.msg = Filler(1),
                                            !.timer = "running"]
                    ELSE InitLocals]
       /\ obs = [p \in Procs |->
                   IF p = LC
                     THEN [InitObs EXCEPT !.transport = TRUE, !.attached = TRUE,
                                          !.sends = c + 1, !.recvs = c + 1,
                                          !.lastRecv = Filler(1),
                                          !.atStart = <<1, 1, 0>>]
                     ELSE InitObs]
  /\ stdout = [p \in Procs |-> IF p = LC THEN <<<<"connected">>>> ELSE <<>>]
  /\ inq = [p \in Procs |-> <<>>]
  /\ wire = [p \in Procs |-> <<>>]

ReportNext == \E e \in 0..MaxElapsed : RemoteLat_Report(e)

SpecReport == ReportInit /\ [][ReportNext]_vars

\* C13: for every valid configuration, roundtrip_count anywhere in the int
\* range, a successful Latency-Client run reports an average latency > 0 and
\* a message rate > 0.
C13_LatencyAndRatePositive ==
  (ExitedWith(LC, ExitSuccess) /\ st[LC].elapsed > 0) =>
    /\ Positive(stdout[LC][Len(stdout[LC])][3])
    /\ Positive(stdout[LC][Len(stdout[LC])][4])

\* C14: in a successful Throughput-Receiver run with message_count = 1, where
\* nothing is received inside the timing window, the denominator elapsed_sec
\* of the throughput is not zero.
C14_DenominatorNeverZero ==
  (ExitedWith(TR, ExitSuccess) /\ ValidArgs(TR) /\ args[TR].count = 1) =>
    /\ stdout[TR][Len(stdout[TR])][4].num # 0
    /\ stdout[TR][Len(stdout[TR])][5].den # 0

\* ------------------------------------------------------- the progress lines
\* The two throughput programs, each alone against a peer that supplies and
\* takes messages, on message counts around the threshold of the progress
\* indicator.
ProgressCounts == (ProgressMinCount - 1)..MaxProgressCount

ProgressInit ==
  /\ active \in {{TR}, {TS}}
  /\ \E c \in ProgressCounts :
       args = [p \in Procs |->
                 IF p \in active THEN [argc |-> ArgcExpected, size |-> 1, count |-> c]
                 ELSE NoArgs]
  /\ st = [p \in Procs |-> InitLocals]
  /\ stdout = [p \in Procs |-> <<>>]
  /\ inq = [p \in Procs |-> <<>>]
  /\ wire = [p \in Procs |-> <<>>]
  /\ obs = [p \in Procs |-> InitObs]

ProgressNext ==
  \/ LocalThrOn(ReliableSend, ReliableRecv)
  \/ RemoteThrOn(ReliableSend)
  \/ Double

SpecProgress == ProgressInit /\ [][ProgressNext]_vars

IsProgressLine(l) == l[1] = "progress"
ProgressLines(p) == SelectSeq(stdout[p], IsProgressLine)
\* The messages p has counted so far: accepted by the receiver, sent by the sender.
Counted(p) == IF p = TR THEN obs[TR].recvs - obs[TR].wrongSize ELSE obs[TS].sends
\* The count at which the cumulative count reaches k tenths of n.
CrossingCount(k, n) == (k * n + ProgressSteps - 1) \div ProgressSteps

\* C15: in local_thr and remote_thr no progress line is printed when
\* message_count <= 100; when message_count > 100 there is one line for each
\* 10% boundary the cumulative count has crossed, the k-th showing 10k percent
\* and the count at which that boundary was crossed.
C15_ProgressAtEveryTenPercent ==
  \A p \in {TR, TS} \cap active :
    LET n == args[p].count
        lines == ProgressLines(p) IN
    /\ n <= ProgressMinCount => lines = <<>>
    /\ n > ProgressMinCount =>
         /\ Len(lines) = (Counted(p) * ProgressSteps) \div n
         /\ \A k \in 1..Len(lines) :
              /\ lines[k][2] = k * (100 \div ProgressSteps)
              /\ lines[k][3] = CrossingCount(k, n)

\* ------------------------------------------------------- a peer that stopped
RecvPcs == {"warmup_recv", "first_recv", "recv"}
\* p waits in socket.recv() for a message that cannot come: its peer has
\* returned from main and nothing the peer sent is still on the way.
Stuck(p) ==
  /\ {p, PeerOf(p)} = active
  /\ st[p].pc \in RecvPcs
  /\ inq[p] = <<>>
  /\ Exited(PeerOf(p))
  /\ wire[PeerOf(p)] = <<>>

\* C16: there is no timeout: once a program waits in a receive for a peer
\* that has stopped, it waits there in every later state, never prints its
\* completion report and never exits.
C16_BlockedForever ==
  [][\A p \in Receivers :
       Stuck(p) =>
         /\ Stuck(p)'
         /\ ~Exited(p)'
         /\ stdout'[p] = stdout[p]
         /\ ~Printed(p, "completed")
         /\ ~Printed(p, "received")
         /\ ~Printed(p, "results")]_vars
C16_Witness ==
  /\ Stuck(TR)
  /\ ExitedWith(TS, ExitSuccess)
  /\ args[TS].count < args[TR].count
  /\ obs[TR].recvs = args[TS].count

\* ------------------------------------------------------------- no retries
\* The transport operations of each kind a full run of p makes.
OpsOfRun(p) == IF p \in {LS, LC} THEN args[p].count + 1 ELSE args[p].count

\* C17: no operation is retried: a program started on valid arguments sends
\* and receives at most once per message index, and after its first failed
\* call or wrong-size message it makes no further send or receive.
C17_NoRetryNothingAfterFailure ==
  [][\A p \in active :
       ValidArgs(p) =>
         /\ obs[p].sends <= OpsOfRun(p)
         /\ obs[p].recvs <= OpsOfRun(p)
         /\ (obs[p].failures > 0 \/ obs[p].wrongSize > 0) =>
              /\ obs'[p].sends = obs[p].sends
              /\ obs'[p].recvs = obs[p].recvs]_vars

\* ------------------------------------------------------- the latency pair
\* What is between the two programs: sent and not yet taken by a recv.
Requests == wire[LC] \o inq[LS]
Replies == wire[LS] \o inq[LC]

\* C18: lockstep of the latency pair: at most one message, a request or a
\* reply, is in flight between remote_lat and local_lat, and remote_lat has
\* sent as many requests as local_lat has sent replies, or one more.
C18_Lockstep ==
  active = {LS, LC} =>
    /\ Len(Requests) + Len(Replies) <= 1
    /\ obs[LC].sends - obs[LS].sends \in {0, 1}
C18_Witness ==
  /\ active = {LS, LC}
  /\ Len(Replies) = 1
  /\ Requests = <<>>
  /\ st[LC].timer = "running"
  /\ obs[LC].sends = obs[LS].sends
  /\ obs[LS].sends = MaxCount + 1

\* C19: remote_lat prints its results and returns 0 only when local_lat has
\* echoed all roundtrip_count + 1 requests; when the two are started on
\* different message sizes local_lat replies to the warm-up request at most,
\* never completes or returns 0, and remote_lat never prints a result.
C19_ResultOnlyAfterAllEchoes ==
  active = {LS, LC} =>
    /\ (Printed(LC, "results") \/ ExitedWith(LC, ExitSuccess)) =>
         obs[LS].sends = args[LC].count + 1
    /\ args[LS].size # args[LC].size =>
         /\ obs[LS].sends <= 1
         /\ ~Printed(LS, "completed")
         /\ ~ExitedWith(LS, ExitSuccess)
         /\ ~Printed(LC, "results")
         /\ ~ExitedWith(LC, ExitSuccess)
C19_Witness ==
  /\ active = {LS, LC}
  /\ Printed(LC, "results")
  /\ ExitedWith(LC, ExitSuccess)
  /\ args[LC].count = MaxCount
  /\ obs[LS].sends = MaxCount + 1

====
